---- MODULE Spec2Model ----
(***************************************************************************)
(* The freehand "draw" shape utility (class Draw) of the dev package,      *)
(* together with the host lifecycle that drives it.                        *)
(*                                                                         *)
(* Numbers.  A JavaScript number is an IEEE 754 binary64 value.  It is     *)
(* modelled as <<s, N, E>>:                                                *)
(*   - a finite nonzero number is s * N * 2^E with s = 1 or -1 and N an    *)
(*     odd natural number below 2^53;                                      *)
(*   - +0 is <<1, <<>>, 0>> and -0 is <<-1, <<>>, 0>>;                     *)
(*   - +Infinity is <<1, <<>>, 1>>, -Infinity is <<-1, <<>>, 1>>;          *)
(*   - NaN is <<0, <<>>, 0>>.                                              *)
(* N is a natural number of any size.  Every operation computes the exact  *)
(* result and rounds it to the nearest representable value, ties to even,  *)
(* as the hardware does.                                                   *)
(***************************************************************************)
EXTENDS Integers, Sequences, FiniteSets, TLC

\* -------------------------------------------------------------------------
\* Natural numbers of any size
\* -------------------------------------------------------------------------
\* A natural number is the sequence of its digits in base 2^LimbBits, the
\* lowest first and the highest not zero; <<>> is zero.

\* binary digits in a digit of a natural number
LimbBits == 14

\* 2^LimbBits
LimbBase == 16384

Abs(i) == IF i < 0 THEN -i ELSE i

Least(i, j) == IF i < j THEN i ELSE j

Greatest(i, j) == IF i < j THEN j ELSE i

\* the value of a set of one element: The({e(x) : x \in {v}}) is e(v), with
\* v computed once however often e reads it
The(S) == CHOOSE v \in S : TRUE

\* the function f on 1..n as the sequence of its n values, each computed once
Listed(f) == f \o <<>>

\* digit i of a, zero above the top
Limb(a, i) == IF i <= Len(a) THEN a[i] ELSE 0

\* a without zero digits at the top
NatTrim(a) ==
    SubSeq(a, 1, CHOOSE i \in 0..Len(a) :
                    /\ i = 0 \/ a[i] # 0
                    /\ \A j \in (i + 1)..Len(a) : a[j] = 0)

\* the natural number i
RECURSIVE NatFromInt(_)
NatFromInt(i) ==
    IF i = 0 THEN <<>> ELSE <<i % LimbBase>> \o NatFromInt(i \div LimbBase)

\* a + b + c from digit i on, c the carry
RECURSIVE NatAddFrom(_, _, _, _)
NatAddFrom(a, b, i, c) ==
    IF i > Len(a) /\ i > Len(b) THEN (IF c = 0 THEN <<>> ELSE <<c>>)
    ELSE The({<<t % LimbBase>> \o NatAddFrom(a, b, i + 1, t \div LimbBase) :
              t \in {Limb(a, i) + Limb(b, i) + c}})

NatAdd(a, b) == The({NatAddFrom(x, y, 1, 0) : x \in {a}, y \in {b}})

\* 2 * a + c for c = 0 or 1
NatTwice(a, c) == The({NatAddFrom(x, x, 1, c) : x \in {a}})

\* a - b - c from digit i on, c the borrow, for a >= b
RECURSIVE NatSubFrom(_, _, _, _)
NatSubFrom(a, b, i, c) ==
    IF i > Len(a) THEN <<>>
    ELSE The({<<(t + LimbBase) % LimbBase>>
              \o NatSubFrom(a, b, i + 1, IF t < 0 THEN 1 ELSE 0) :
              t \in {a[i] - Limb(b, i) - c}})

NatSub(a, b) ==
    The({NatTrim(d) : d \in {The({NatSubFrom(x, y, 1, 0) : x \in {a}, y \in {b}})}})

\* -1, 0 or 1 as a is below, equal to or above b
NatCmp(a, b) ==
    The({IF Len(x) # Len(y) THEN (IF Len(x) < Len(y) THEN -1 ELSE 1)
         ELSE IF x = y THEN 0
         ELSE The({IF x[i] > y[i] THEN 1 ELSE -1 :
                   i \in {CHOOSE i \in 1..Len(x) :
                             x[i] # y[i] /\ \A j \in (i + 1)..Len(x) : x[j] = y[j]}}) :
         x \in {a}, y \in {b}})

\* a * m + c from digit i on, for 0 < m < LimbBase
RECURSIVE NatScaleFrom(_, _, _, _)
NatScaleFrom(a, m, i, c) ==
    IF i > Len(a) THEN (IF c = 0 THEN <<>> ELSE <<c>>)
    ELSE The({<<t % LimbBase>> \o NatScaleFrom(a, m, i + 1, t \div LimbBase) :
              t \in {a[i] * m + c}})

\* a * m for 0 <= m < LimbBase
NatScale(a, m) ==
    IF m = 0 THEN <<>> ELSE The({NatScaleFrom(x, m, 1, 0) : x \in {a}})

\* a * LimbBase
NatUp(a) == The({IF x = <<>> THEN x ELSE <<0>> \o x : x \in {a}})

\* a * b, from digit j of b on
RECURSIVE NatMulFrom(_, _, _)
NatMulFrom(a, b, j) ==
    IF j > Len(b) THEN <<>>
    ELSE NatAdd(NatScale(a, b[j]), NatUp(NatMulFrom(a, b, j + 1)))

\* a * b
NatMul(a, b) ==
    The({IF Len(x) < Len(y) THEN NatMulFrom(y, x, 1) ELSE NatMulFrom(x, y, 1) :
         x \in {a}, y \in {b}})

\* a * 2^k
NatShl(a, k) ==
    The({IF x = <<>> THEN x
         ELSE [i \in 1..(k \div LimbBits) |-> 0] \o NatScale(x, 2^(k % LimbBits)) :
         x \in {a}})

\* a \div 2^k: digit i of it is made of the digits i + w and i + w + 1 of
\* a, cut at the binary place b
NatShr(a, k) ==
    The({NatTrim(Listed([i \in 1..(Len(x) - w) |->
                    (x[i + w] \div 2^b)
                    + (Limb(x, i + w + 1) % 2^b) * (LimbBase \div 2^b)])) :
         x \in {a}, w \in {k \div LimbBits}, b \in {k % LimbBits}})

\* the number of binary digits of an integer x >= 0
RECURSIVE IntBits(_)
IntBits(x) == IF x = 0 THEN 0 ELSE 1 + IntBits(x \div 2)

\* the number of binary digits of a
NatBits(a) ==
    The({IF x = <<>> THEN 0 ELSE LimbBits * (Len(x) - 1) + IntBits(x[Len(x)]) :
         x \in {a}})

\* binary digit k of a, the lowest being digit 1; zero outside a
NatBit(a, k) ==
    IF k < 1 THEN 0
    ELSE (Limb(a, (k - 1) \div LimbBits + 1) \div 2^((k - 1) % LimbBits)) % 2

\* one of the k lowest binary digits of a is 1
NatLowBits(a, k) ==
    /\ k > 0
    /\ \/ \E i \in 1..Least(Len(a), k \div LimbBits) : a[i] # 0
       \/ Limb(a, k \div LimbBits + 1) % 2^(k % LimbBits) # 0

\* the number of zero binary digits at the bottom of an integer x > 0
RECURSIVE IntZeros(_)
IntZeros(x) == IF x % 2 = 1 THEN 0 ELSE 1 + IntZeros(x \div 2)

\* the number of zero binary digits below the lowest 1 of a nonzero a
NatZeros(a) ==
    The({LimbBits * (i - 1) + IntZeros(a[i]) :
         i \in {CHOOSE i \in 1..Len(a) :
                   a[i] # 0 /\ \A j \in 1..(i - 1) : a[j] = 0}})

\* a divided by the integer m, 0 < m < LimbBase, from digit i down, r what
\* is left so far: the quotient q and whether the division is exact
RECURSIVE NatShortDiv(_, _, _, _)
NatShortDiv(a, m, i, r) ==
    IF i = 0 THEN [q |-> <<>>, exact |-> r = 0]
    ELSE The({The({[q |-> Append(lower.q, t \div m), exact |-> lower.exact] :
                   lower \in {NatShortDiv(a, m, i - 1, t % m)}}) :
              t \in {r * LimbBase + a[i]}})

\* the k low binary digits of a digit brought down one by one into r, what
\* is left of a long division by b; q collects the digits of the quotient
RECURSIVE NatLongBits(_, _, _, _, _)
NatLongBits(limb, k, b, r, q) ==
    IF k = 0 THEN [q |-> q, r |-> r]
    ELSE The({The({NatLongBits(limb, k - 1, b,
                               IF more THEN NatSub(r2, b) ELSE r2,
                               2 * q + (IF more THEN 1 ELSE 0)) :
                   more \in {NatCmp(r2, b) >= 0}}) :
              r2 \in {NatTwice(r, (limb \div 2^(k - 1)) % 2)}})

\* a divided by b from digit i down, r what is left so far
RECURSIVE NatLongDiv(_, _, _, _)
NatLongDiv(a, b, i, r) ==
    IF i = 0 THEN [q |-> <<>>, exact |-> r = <<>>]
    ELSE The({The({[q |-> Append(lower.q, d.q), exact |-> lower.exact] :
                   lower \in {NatLongDiv(a, b, i - 1, d.r)}}) :
              d \in {NatLongBits(a[i], LimbBits, b, r, 0)}})

\* a \div b for b > 0 as q, and whether a / b is that integer
NatDiv(a, b) ==
    The({[q |-> NatTrim(d.q), exact |-> d.exact] :
         d \in {The({IF Len(y) = 1 THEN NatShortDiv(x, y[1], Len(x), 0)
                     ELSE NatLongDiv(x, y, Len(x), <<>>) :
                     x \in {a}, y \in {b}})}})

\* -------------------------------------------------------------------------
\* Numbers
\* -------------------------------------------------------------------------
\* binary digits of a significand
MantissaBits == 53

\* the exponent of the highest binary digit of the largest number
MaxExponent == 1023

\* minus the exponent of the lowest binary digit of the smallest number
MinExponent == 1074

NaN == <<0, <<>>, 0>>

Inf == <<1, <<>>, 1>>

NegInf == <<-1, <<>>, 1>>

\* the zero of sign s
Zero(s) == <<s, <<>>, 0>>

IsNaN(a) == a[1] = 0

IsInf(a) == a[1] # 0 /\ a[2] = <<>> /\ a[3] = 1

IsFinite(a) == a[1] # 0 /\ ~(a[2] = <<>> /\ a[3] = 1)

IsZero(a) == a[1] # 0 /\ a[2] = <<>> /\ a[3] = 0

\* the sign of a number: 0 for NaN and for both zeros
Sgn(a) == IF a[2] = <<>> /\ a[3] = 0 THEN 0 ELSE a[1]

\* the number s * n * 2^e when it is representable, an infinity when it is
\* too large
Canon(s, n, e) ==
    IF n = <<>> THEN Zero(s)
    ELSE IF e + NatBits(n) - 1 > MaxExponent THEN <<s, <<>>, 1>>
    ELSE The({<<s, NatShr(n, z), e + z>> : z \in {NatZeros(n)}})

\* s * n * 2^e with the lowest drop digits of n rounded away: up when they
\* are more than half of the last place kept, or half and that place is odd
RoundAt(s, n, e, drop) ==
    Canon(s,
          IF drop <= 0 THEN n
          ELSE IF /\ NatBit(n, drop) = 1
                  /\ \/ NatBit(n, drop + 1) = 1
                     \/ NatLowBits(n, drop - 1)
               THEN NatAdd(NatShr(n, drop), <<1>>)
          ELSE NatShr(n, drop),
          e + Greatest(drop, 0))

\* the number nearest to s * n * 2^e, ties to the even significand
Round(s, n, e) ==
    The({The({RoundAt(s, x, e, drop) :
              drop \in {Greatest(NatBits(x) - MantissaBits, -MinExponent - e)}}) :
         x \in {n}})

\* the integer i
R(i) == Canon(IF i < 0 THEN -1 ELSE 1, NatFromInt(Abs(i)), 0)

\* the sum of sa * x * 2^e and sb * y * 2^e, where c compares x with y; a
\* sum that is exactly zero is +0 unless both terms are negative
AddCompared(sa, x, sb, y, e, c) ==
    Round(IF sa = sb \/ c > 0 THEN sa ELSE IF c < 0 THEN sb ELSE 1,
          IF sa = sb THEN NatAdd(x, y)
          ELSE NatSub(IF c < 0 THEN y ELSE x, IF c < 0 THEN x ELSE y),
          e)

AddAligned(sa, x, sb, y, e) == AddCompared(sa, x, sb, y, e, NatCmp(x, y))

\* the sum of two finite numbers, brought to their lower exponent e
AddAt(a, b, e) ==
    AddAligned(a[1], NatShl(a[2], a[3] - e), b[1], NatShl(b[2], b[3] - e), e)

\* a term whose highest digit lies more than a significand below the
\* digit of exponent t weighs in a sum only by being there: a single digit
\* far enough below stands for it
Faint(a, t) ==
    IF a[3] + NatBits(a[2]) < t - MantissaBits - 4
    THEN <<a[1], <<1>>, t - MantissaBits - 6>> ELSE a

AddNear(a, b) == AddAt(a, b, Least(a[3], b[3]))

AddFinite(a, b) ==
    AddNear(Faint(a, b[3] + NatBits(b[2])), Faint(b, a[3] + NatBits(a[2])))

\* a + b
Add(x, y) ==
    The({IF IsNaN(a) \/ IsNaN(b) THEN NaN
         ELSE IF IsInf(a) THEN (IF IsInf(b) /\ a # b THEN NaN ELSE a)
         ELSE IF IsInf(b) THEN b
         ELSE IF IsZero(a) /\ ~IsZero(b) THEN b
         ELSE IF IsZero(b) /\ ~IsZero(a) THEN a
         ELSE AddFinite(a, b) :
         a \in {x}, b \in {y}})

\* -a
Neg(x) == The({<<-a[1], a[2], a[3]>> : a \in {x}})

\* a - b
Sub(a, b) == Add(a, Neg(b))

\* a * b
Mul(x, y) ==
    The({IF IsNaN(a) \/ IsNaN(b) THEN NaN
         ELSE IF IsInf(a) \/ IsInf(b)
              THEN (IF IsZero(a) \/ IsZero(b) THEN NaN ELSE <<a[1] * b[1], <<>>, 1>>)
         ELSE Round(a[1] * b[1], NatMul(a[2], b[2]), a[3] + b[3]) :
         a \in {x}, b \in {y}})

\* the quotient of two finite nonzero numbers, the dividend shifted by k
\* digits so that the integer quotient d.q has two digits more than a
\* significand; a digit below them records whether anything is left
DivShifted(a, b, k, d) ==
    Round(a[1] * b[1], NatTwice(d.q, IF d.exact THEN 0 ELSE 1),
          a[3] - b[3] - k - 1)

DivBy(a, b, k) == DivShifted(a, b, k, NatDiv(NatShl(a[2], k), b[2]))

DivFinite(a, b) ==
    DivBy(a, b, Greatest(0, MantissaBits + 2 + NatBits(b[2]) - NatBits(a[2])))

\* a / b: a division by zero yields NaN (0/0) or an infinity, never an error
Div(x, y) ==
    The({IF IsNaN(a) \/ IsNaN(b) THEN NaN
         ELSE IF IsInf(a) THEN (IF IsInf(b) THEN NaN ELSE <<a[1] * b[1], <<>>, 1>>)
         ELSE IF IsInf(b) THEN Zero(a[1] * b[1])
         ELSE IF IsZero(b) THEN (IF IsZero(a) THEN NaN ELSE <<a[1] * b[1], <<>>, 1>>)
         ELSE IF IsZero(a) THEN Zero(a[1] * b[1])
         ELSE DivFinite(a, b) :
         a \in {x}, b \in {y}})

\* the decimal literal n/d: the number nearest to it
Dec(n, d) == Div(R(n), R(d))

\* -1, 0 or 1 as |a| is below, equal to or above |b|, neither zero nor NaN
MagCmp(a, b) ==
    IF IsInf(a) \/ IsInf(b)
    THEN (IF ~IsInf(b) THEN 1 ELSE IF ~IsInf(a) THEN -1 ELSE 0)
    ELSE IF a[3] + NatBits(a[2]) # b[3] + NatBits(b[2])
         THEN (IF a[3] + NatBits(a[2]) < b[3] + NatBits(b[2]) THEN -1 ELSE 1)
    ELSE NatCmp(NatShl(a[2], a[3] - Least(a[3], b[3])),
                NatShl(b[2], b[3] - Least(a[3], b[3])))

\* a < b, for a and b of the same sign s, not zero
LtSigned(a, b, s) == s * MagCmp(a, b) < 0

\* a < b: false as soon as one side is NaN; -0 is not below +0
Lt(x, y) ==
    \E a \in {x}, b \in {y} :
        /\ ~IsNaN(a) /\ ~IsNaN(b)
        /\ IF Sgn(a) # Sgn(b) THEN Sgn(a) < Sgn(b)
           ELSE Sgn(a) # 0 /\ LtSigned(a, b, Sgn(a))

\* a > b
Gt(a, b) == Lt(b, a)

\* a === b: NaN equals nothing, -0 equals +0
Eq(x, y) ==
    \E a \in {x}, b \in {y} :
        ~IsNaN(a) /\ ~IsNaN(b) /\ (a = b \/ (IsZero(a) /\ IsZero(b)))

\* a <= b
Le(a, b) == Lt(a, b) \/ Eq(a, b)

\* Math.min(a, b): NaN as soon as one side is NaN; -0 is below +0
Min2(x, y) ==
    The({IF IsNaN(a) \/ IsNaN(b) THEN NaN
         ELSE IF Lt(b, a) \/ (Eq(a, b) /\ b[1] < a[1]) THEN b ELSE a :
         a \in {x}, b \in {y}})

\* Math.max(a, b)
Max2(x, y) ==
    The({IF IsNaN(a) \/ IsNaN(b) THEN NaN
         ELSE IF Lt(a, b) \/ (Eq(a, b) /\ b[1] > a[1]) THEN b ELSE a :
         a \in {x}, b \in {y}})

RECURSIVE MinOf(_)
MinOf(s) == IF Len(s) = 1 THEN s[1] ELSE Min2(s[1], MinOf(Tail(s)))

RECURSIVE MaxOf(_)
MaxOf(s) == IF Len(s) = 1 THEN s[1] ELSE Max2(s[1], MaxOf(Tail(s)))

\* -------------------------------------------------------------------------
\* Vector and bounds primitives (Vec and Utils of the geometry library)
\* -------------------------------------------------------------------------
\* Vec.add on the first two coordinates
VecAdd(a, b) == <<Add(a[1], b[1]), Add(a[2], b[2])>>

\* Vec.sub
VecSub(a, b) == <<Sub(a[1], b[1]), Sub(a[2], b[2])>>

\* Vec.neg
VecNeg(a) == <<Neg(a[1]), Neg(a[2])>>

\* cos and sin of a rotation given in quarter turns
Cos(q) == R(CASE q % 4 = 0 -> 1 [] q % 4 = 1 -> 0 [] q % 4 = 2 -> -1 [] OTHER -> 0)

Sin(q) == R(CASE q % 4 = 0 -> 0 [] q % 4 = 1 -> 1 [] q % 4 = 2 -> 0 [] OTHER -> -1)

\* Vec.rotWith(A, C, r): A rotated about the pivot C; the pressure is dropped
RotWith(A, C, q) ==
    The({<<Add(Sub(Mul(p[1], cs[1]), Mul(p[2], cs[2])), C[1]),
           Add(Add(Mul(p[1], cs[2]), Mul(p[2], cs[1])), C[2])>> :
         p \in {VecSub(A, C)}, cs \in {<<Cos(q), Sin(q)>>}})

\* the x (k = 1) or y (k = 2) coordinates of a point sequence
Coords(points, k) == Listed([i \in 1..Len(points) |-> points[i][k]])

\* Utils.getBoundsFromPoints(points), for a non-empty sequence:
\* width = maxX - minX and height = maxY - minY
GetBoundsFromPoints(points) ==
    The({[minX |-> lo[1], minY |-> lo[2], maxX |-> hi[1], maxY |-> hi[2],
          width |-> Sub(hi[1], lo[1]), height |-> Sub(hi[2], lo[2])] :
         lo \in {Listed([k \in 1..2 |-> MinOf(Coords(points, k))])},
         hi \in {Listed([k \in 1..2 |-> MaxOf(Coords(points, k))])}})

\* Utils.getBoundsCenter
GetBoundsCenter(b) ==
    The({Listed([k \in 1..2 |-> Div(Add(lo[k], hi[k]), R(2))]) :
         lo \in {<<b.minX, b.minY>>}, hi \in {<<b.maxX, b.maxY>>}})

\* Utils.getBoundsFromPoints(points, rotation): the points are rotated about
\* the centre of their own bounds before the envelope is taken
GetRotatedBoundsFromPoints(points, q) ==
    IF q = 0 THEN GetBoundsFromPoints(points)
    ELSE The({GetBoundsFromPoints(
                  Listed([i \in 1..Len(points) |-> RotWith(points[i], c, q)])) :
              c \in {GetBoundsCenter(GetBoundsFromPoints(points))}})

\* Utils.translateBounds(bounds, delta)
TranslateBounds(b, delta) ==
    The({[minX |-> lo[1], minY |-> lo[2], maxX |-> hi[1], maxY |-> hi[2],
          width |-> b.width, height |-> b.height] :
         lo \in {VecAdd(<<b.minX, b.minY>>, delta)},
         hi \in {VecAdd(<<b.maxX, b.maxY>>, delta)}})

\* Utils.boundsContain(a, b): a fully contains b
BoundsContain(a, b) ==
    /\ Lt(a.minX, b.minX)
    /\ Lt(a.minY, b.minY)
    /\ Gt(a.maxY, b.maxY)
    /\ Gt(a.maxX, b.maxX)

\* -------------------------------------------------------------------------
\* Intersection library; each operator is "the list of intersections found
\* is not empty".  A zero-area contact counts as an intersection.
\* -------------------------------------------------------------------------
\* sign of the cross product (b - a) x (c - a); 2 when it is NaN
Orient(a, b, c) ==
    The({IF IsFinite(v) THEN Sgn(v) ELSE 2 :
         v \in {The({Sub(Mul(u[1], w[2]), Mul(u[2], w[1])) :
                     u \in {VecSub(b, a)}, w \in {VecSub(c, a)}})}})

\* c lies in the coordinate box spanned by a and b
InSpan(a, b, c) ==
    \A k \in 1..2 : Le(Min2(a[k], b[k]), c[k]) /\ Le(c[k], Max2(a[k], b[k]))

\* the segments a1-a2 and b1-b2 share a point: each of the four triples t
\* is a segment and an end of the other one, o[k] the side of the segment
\* that end lies on
SegmentSegment(a1, a2, b1, b2) ==
    \E t \in {<<<<a1, a2, b1>>, <<a1, a2, b2>>, <<b1, b2, a1>>, <<b1, b2, a2>>>>} :
    \E o \in {Listed([k \in 1..4 |-> Orient(t[k][1], t[k][2], t[k][3])])} :
        /\ \A k \in 1..4 : o[k] # 2
        /\ \/ (o[1] # o[2] /\ o[3] # o[4])
           \/ \E k \in 1..4 : o[k] = 0 /\ InSpan(t[k][1], t[k][2], t[k][3])

\* the four edges of a box, as pairs of corners
BoxEdges(b) ==
    { <<<<b.minX, b.minY>>, <<b.maxX, b.minY>>>>,
      <<<<b.maxX, b.minY>>, <<b.maxX, b.maxY>>>>,
      <<<<b.maxX, b.maxY>>, <<b.minX, b.maxY>>>>,
      <<<<b.minX, b.maxY>>, <<b.minX, b.minY>>>> }

\* Intersect.bounds.bounds(a, b).length > 0: interval overlap on both axes
IntersectBoundsBounds(a, b) ==
    /\ Le(a.minX, b.maxX) /\ Le(b.minX, a.maxX)
    /\ Le(a.minY, b.maxY) /\ Le(b.minY, a.maxY)

\* Intersect.polyline.bounds(points, b).length > 0: some segment of the
\* polyline meets one of the four edges of the box
IntersectPolylineBounds(points, b) ==
    \E i \in 1..(Len(points) - 1) : \E e \in BoxEdges(b) :
        SegmentSegment(points[i], points[i + 1], e[1], e[2])

\* Intersect.bounds.polyline(b, points).length > 0: the symmetric form
IntersectBoundsPolyline(b, points) == IntersectPolylineBounds(points, b)

\* -------------------------------------------------------------------------
\* Stroke generator (getStroke, getStrokePoints) and path building
\* -------------------------------------------------------------------------
\* getStroke(points, options): a pure function of its arguments, kept as the
\* application itself; equal arguments give equal outlines
GetStroke(points, options) == [input |-> points, options |-> options]

\* Utils.getSvgPathFromStroke(stroke): the path data of an outline
GetSvgPathFromStroke(stroke) == <<stroke>>

\* getStrokePoints(points) with the default streamline of 1/2: each point is
\* pulled half way from the previous streamlined point to the raw point
RECURSIVE Streamline(_, _, _)
Streamline(points, i, prev) ==
    IF i > Len(points) THEN <<>>
    ELSE The({<<cur>> \o Streamline(points, i + 1, cur) :
              cur \in {Listed([k \in 1..2 |->
                          Add(prev[k], Div(Sub(points[i][k], prev[k]), R(2)))])}})

GetStrokePoints(points) ==
    IF Len(points) = 0 THEN <<>>
    ELSE <<<<points[1][1], points[1][2]>>>>
         \o Streamline(points, 2, <<points[1][1], points[1][2]>>)

\* the number 10^21, from which on a number prints with an exponent
Ten21 == Mul(R(1000000000), Mul(R(1000000), R(1000000)))

\* the number 10^-6, below which a number prints with an exponent
Millionth == Dec(1, 1000000)

\* a decimal numeral with two places in a path: s * n / 100
Fixed(s, n) == <<s, n, 2, 0>>

\* floor(|v| * 100 + h / 2) for a finite v and h = 0 or 1; nothing below
\* 2^-8 reaches a hundredth
Hundredths(v, h) ==
    IF v[3] + NatBits(v[2]) < -7 THEN <<>>
    ELSE IF v[3] >= 0 THEN NatShl(NatMul(v[2], NatFromInt(100)), v[3])
    ELSE NatShr(NatAdd(NatMul(v[2], NatFromInt(100)),
                       IF h = 1 THEN NatShl(<<1>>, -v[3] - 1) ELSE <<>>),
                -v[3])

\* x.toFixed(2): the exact value of x rounded to hundredths, ties away from
\* zero; the sign is printed whenever x < 0, so -0.001 gives "-0.00" and
\* -0 gives "0.00"; NaN, the infinities and numbers from 10^21 on print as
\* they do in x.toString()
ToFixed2(v) ==
    IF ~IsFinite(v) \/ ~Lt(<<1, v[2], v[3]>>, Ten21) THEN v
    ELSE Fixed(IF Sgn(v) < 0 THEN -1 ELSE 1, Hundredths(v, 1))

\* 10^q as a natural number
RECURSIVE NatTen(_)
NatTen(q) == IF q = 0 THEN <<1>> ELSE NatScale(NatTen(q - 1), 10)

\* the integer nearest to n / d, the even one of two equally near: d.q is
\* (2n + d) \div 2d
NatNearest(n, d) ==
    The({IF h.exact /\ NatBit(h.q, 1) = 1 THEN NatSub(h.q, <<1>>) ELSE h.q :
         h \in {NatDiv(NatAdd(NatTwice(n, 0), d), NatTwice(d, 0))}})

\* the multiple of 10^q hundredths nearest to the finite v > 0, in
\* hundredths
NearestNumeral(v, q) ==
    The({NatMul(t,
                IF v[3] >= 0
                THEN NatNearest(NatShl(NatMul(v[2], NatFromInt(100)), v[3]), t)
                ELSE NatNearest(NatMul(v[2], NatFromInt(100)),
                                NatShl(t, -v[3]))) :
         t \in {NatTen(q)}})

\* the numeral of n hundredths reads back as v: v is the number nearest to
\* n / 100
ReadsBack(n, v) ==
    n # <<>> /\ DivFinite(<<1, n, 0>>, R(100)) = v

\* the numeral of fewest digits among those of at most two decimals that
\* read back as v, in hundredths, given that the one of 10^(q - 1)
\* hundredths nearest to v, best, does: a numeral of 10^q hundredths has a
\* digit less
RECURSIVE ShortestFrom(_, _, _)
ShortestFrom(v, q, best) ==
    IF q > 22 THEN best
    ELSE The({IF ReadsBack(n, v) THEN ShortestFrom(v, q + 1, n) ELSE best :
              n \in {NearestNumeral(v, q)}})

\* what replaceAll(/(\s[0-9]*\.[0-9]{2})([0-9]*)\b/g, '$1') leaves of a
\* number printed by toString: the digits after the second decimal are cut.
\* Nothing is cut from a numeral that starts with a minus sign, from NaN or
\* Infinity, or from one printed with an exponent (below 10^-6 or from
\* 10^21 on).  toString prints the numeral of fewest digits that reads back
\* as v, the nearest to v of those, the even one of two equally near: when
\* a numeral of at most two decimals reads back as v, the shortest of them is
\* printed and left as it is; otherwise the numeral has more than two
\* decimals and what is left of it is v cut to hundredths.  The numerals
\* toFixed(2) printed are left as they are.
CutDecimals(v) ==
    IF ~IsFinite(v) \/ Sgn(v) < 0 THEN v
    ELSE IF IsZero(v) THEN Fixed(1, <<>>)
    ELSE IF Lt(v, Millionth) \/ ~Lt(v, Ten21) THEN v
    ELSE The({IF ReadsBack(n, v) THEN Fixed(1, ShortestFrom(v, 1, n))
              ELSE Fixed(1, Hundredths(v, 0)) :
              n \in {NearestNumeral(v, 0)}})

\* the reduce of getSolidStrokePath from index i on
RECURSIVE PathTail(_, _)
PathTail(pts, i) ==
    IF i = Len(pts)
    THEN <<"L">> \o [k \in 1..2 |-> CutDecimals(pts[i][k])]
    ELSE The({[k \in 1..4 |-> ToFixed2(q[k])] :
              q \in {<<pts[i][1], pts[i][2]>>
                     \o [k \in 1..2 |->
                           Div(Add(pts[i][k], pts[i + 1][k]), R(2))]}})
         \o PathTail(pts, i + 1)

\* getSolidStrokePath(shape): the indicator path as its sequence of tokens
GetSolidStrokePath(shape) ==
    IF Len(shape.points) = 0 THEN <<"M", R(0), R(0), "L", R(0), R(0)>>
    ELSE IF Len(shape.points) < 3
         THEN <<"M", shape.points[1][1], shape.points[1][2]>>
    ELSE The({<<"M">> \o [k \in 1..2 |-> CutDecimals(pts[1][k])] \o <<"Q">>
              \o PathTail(pts, 1) :
              pts \in {GetStrokePoints(shape.points)}})

\* -------------------------------------------------------------------------
\* class Draw.  Every method that reads a cache takes the caches c and
\* returns its value together with the caches it leaves behind.
\* -------------------------------------------------------------------------
\* Utils.getFromCache(cache, item, getNext)
GetFromCache(cache, item, getNext) ==
    IF item \in DOMAIN cache
    THEN [value |-> cache[item], cache |-> cache, computed |-> FALSE]
    ELSE [value |-> getNext, cache |-> (item :> getNext) @@ cache,
          computed |-> TRUE]

\* defaultProps.style
DefaultStyle ==
    [size |-> R(8), strokeWidth |-> R(0), thinning |-> Dec(3, 4),
     streamline |-> Dec(1, 2), smoothing |-> Dec(1, 2), taperStart |-> R(0),
     taperEnd |-> R(0), capStart |-> TRUE, capEnd |-> TRUE, isFilled |-> TRUE,
     color |-> "#000"]

\* shouldRender comparing the contents instead of the references
ShouldRenderByValue(prev, next) ==
    next.points # prev.points \/ next.style # prev.style

\* shouldRender(prev, next): the two references are compared, not the values
ShouldRender(prev, next) ==
    next.pointsRef # prev.pointsRef \/ next.styleRef # prev.styleRef

\* getBounds(shape)
GetBounds(c, shape) ==
    The({[value |-> TranslateBounds(g.value, shape.point),
          caches |-> [c EXCEPT !.pointsBoundsCache = g.cache],
          computed |-> g.computed] :
         g \in {GetFromCache(c.pointsBoundsCache, shape.pointsRef,
                             GetBoundsFromPoints(shape.points))}})

\* getRotatedBounds(shape)
GetRotatedBounds(shape) ==
    TranslateBounds(GetRotatedBoundsFromPoints(shape.points, shape.rotation),
                    shape.point)

\* getCenter(shape)
GetCenter(c, shape) ==
    The({[value |-> GetBoundsCenter(g.value), caches |-> g.caches,
          computed |-> g.computed] :
         g \in {GetBounds(c, shape)}})

\* hitTest()
HitTest == TRUE

\* the callback of the rotated branch of hitTestBounds
RotatedPoints(shape) ==
    The({Listed([i \in 1..Len(shape.points) |->
                   RotWith(shape.points[i], ctr, shape.rotation)]) :
         ctr \in {GetBoundsCenter(GetBoundsFromPoints(shape.points))}})

\* hitTestBounds keeping the rotated vertex list per points sequence
HitTestBoundsKeyedByPoints(c, shape, brushBounds) ==
    IF shape.rotation = 0
    THEN The({[value |->
                 \/ BoundsContain(brushBounds, g.value)
                 \/ /\ \/ BoundsContain(g.value, brushBounds)
                       \/ IntersectBoundsBounds(g.value, brushBounds)
                    /\ IntersectPolylineBounds(shape.points, 
                        TranslateBounds(brushBounds, VecNeg(shape.point))),
               caches |-> g.caches, computed |-> g.computed] :
              g \in {GetBounds(c, shape)}})
    ELSE The({[value |->
                 \/ BoundsContain(brushBounds, GetRotatedBounds(shape))
                 \/ IntersectBoundsPolyline(
                        TranslateBounds(brushBounds, VecNeg(shape.point)), r.value),
               caches |-> [c EXCEPT !.rotatedCache = r.cache],
               computed |-> r.computed] :
              r \in {GetFromCache(c.rotatedCache, shape.pointsRef,
                                  RotatedPoints(shape))}})

\* hitTestBounds(shape, brushBounds)
HitTestBounds(c, shape, brushBounds) ==
    IF shape.rotation = 0
    THEN The({[value |->
                 \/ BoundsContain(brushBounds, g.value)
                 \/ /\ \/ BoundsContain(g.value, brushBounds)
                       \/ IntersectBoundsBounds(g.value, brushBounds)
                    /\ IntersectPolylineBounds(shape.points, 
                        TranslateBounds(brushBounds, VecNeg(shape.point))),
               caches |-> g.caches, computed |-> g.computed] :
              g \in {GetBounds(c, shape)}})
    ELSE The({[value |->
                 \/ BoundsContain(brushBounds, GetRotatedBounds(shape))
                 \/ IntersectBoundsPolyline(
                        TranslateBounds(brushBounds, VecNeg(shape.point)), r.value),
               caches |-> [c EXCEPT !.rotatedCache = r.cache],
               computed |-> r.computed] :
              r \in {GetFromCache(c.rotatedCache, shape.ref,
                                  RotatedPoints(shape))}})

\* one coordinate of transform: extent * (scale < 0 ? 1 - x / w : x / w)
Scaled(extent, scale, x, w) ==
    Mul(extent, The({IF Lt(scale, R(0)) THEN Sub(R(1), t) ELSE t :
                     t \in {Div(x, w)}}))

\* transform returning a shape that is being drawn again
TransformReopens(c, shape, bounds, info) ==
    The({[value |->
            [points |-> Listed([i \in 1..Len(info.initialShape.points) |->
                           <<Scaled(bounds.width, info.scaleX,
                                    info.initialShape.points[i][1],
                                    g.value.width),
                             Scaled(bounds.height, info.scaleY,
                                    info.initialShape.points[i][2],
                                    g.value.height),
                             info.initialShape.points[i][3]>>]),
             point |-> VecSub(<<bounds.minX, bounds.minY>>,
                              <<newBounds.minX, newBounds.minY>>),
             isDone |-> FALSE],
          caches |-> [c EXCEPT !.boundsCache = g.cache],
          computed |-> g.computed] :
         g \in {GetFromCache(c.boundsCache, info.initialShape.ref,
                             GetBoundsFromPoints(info.initialShape.points))},
         newBounds \in {GetBoundsFromPoints(shape.points)}})

\* transform(shape, bounds, {initialShape, scaleX, scaleY})
Transform(c, shape, bounds, info) ==
    The({[value |->
            [points |-> Listed([i \in 1..Len(info.initialShape.points) |->
                           <<Scaled(bounds.width, info.scaleX,
                                    info.initialShape.points[i][1],
                                    g.value.width),
                             Scaled(bounds.height, info.scaleY,
                                    info.initialShape.points[i][2],
                                    g.value.height),
                             info.initialShape.points[i][3]>>]),
             point |-> VecSub(<<bounds.minX, bounds.minY>>,
                              <<newBounds.minX, newBounds.minY>>)],
          caches |-> [c EXCEPT !.boundsCache = g.cache],
          computed |-> g.computed] :
         g \in {GetFromCache(c.boundsCache, info.initialShape.ref,
                             GetBoundsFromPoints(info.initialShape.points))},
         newBounds \in {GetBoundsFromPoints(shape.points)}})

\* transformSingle(shape, bounds, info)
TransformSingle(c, shape, bounds, info) == Transform(c, shape, bounds, info)

\* onSessionComplete(shape)
OnSessionComplete(c, shape) ==
    The({The({[value |->
                 [points |-> Listed([i \in 1..Len(shape.points) |->
                                <<Sub(shape.points[i][1], xy[1]),
                                  Sub(shape.points[i][2], xy[2]),
                                  shape.points[i][3]>>]),
                  point |-> VecAdd(shape.point, xy)],
               caches |-> g.caches, computed |-> g.computed] :
              xy \in {VecSub(<<g.value.minX, g.value.minY>>, shape.point)}}) :
         g \in {GetBounds(c, shape)}})

\* renderIndicator(shape)
RenderIndicator(c, shape) ==
    The({[value |-> [tag |-> "path", d |-> g.value],
          caches |-> [c EXCEPT !.simplePathCache = g.cache],
          computed |-> g.computed] :
         g \in {GetFromCache(c.simplePathCache, shape.pointsRef,
                             GetSolidStrokePath(shape))}})

\* strokeWidth || 1
OrOne(w) == IF IsNaN(w) \/ IsZero(w) THEN R(1) ELSE w

\* the <circle> element of render
Circle(size, fill, color, strokeWidth) ==
    [tag |-> "circle", r |-> Mul(size, Dec(32, 100)), fill |-> fill,
     stroke |-> color,
     strokeWidth |-> IF fill # "" THEN OrOne(strokeWidth) ELSE strokeWidth,
     pointerEvents |-> "all"]

\* the <path> element of render
Path(d, fill, color, strokeWidth) ==
    [tag |-> "path", d |-> d, fill |-> fill, stroke |-> color,
     strokeWidth |-> IF fill # "" THEN OrOne(strokeWidth) ELSE strokeWidth,
     strokeLinejoin |-> "round", strokeLinecap |-> "round",
     pointerEvents |-> "all"]

\* the dot condition with the point count off by one
IsDotUnderTwo(shape, bounds) ==
    /\ \/ Len(shape.points) < 2
       \/ \E half \in {Div(shape.style.size, R(2))} :
             Lt(bounds.width, half) /\ Lt(bounds.height, half)
    /\ shape.isDone

\* the condition under which render draws a point instead of a line
IsDot(shape, bounds) ==
    /\ \/ Len(shape.points) <= 2
       \/ \E half \in {Div(shape.style.size, R(2))} :
             Lt(bounds.width, half) /\ Lt(bounds.height, half)
    /\ shape.isDone

\* the options render passes to getStroke
StrokeOptions(shape) ==
    [size |-> shape.style.size, thinning |-> shape.style.thinning,
     streamline |-> shape.style.streamline,
     smoothing |-> shape.style.smoothing,
     end |-> [taper |-> shape.style.taperEnd, cap |-> shape.style.capEnd],
     start |-> [taper |-> shape.style.taperStart,
                cap |-> shape.style.capStart],
     simulatePressure |-> Eq(shape.points[2][3], Dec(1, 2)),
     last |-> shape.isDone]

\* render(shape, {isDarkMode})
Render(c, shape) ==
    The({IF IsDot(shape, g.value)
         THEN [value |-> Circle(shape.style.size, fill, shape.style.color,
                                shape.style.strokeWidth),
               caches |-> g.caches]
         ELSE IF Len(shape.points) > 2
         THEN The({[value |-> Path(GetSvgPathFromStroke(stroke), fill,
                                   shape.style.color, shape.style.strokeWidth),
                    caches |-> [g.caches EXCEPT
                                  !.strokeCache = (shape.ref :> stroke) @@ @]] :
                   stroke \in {GetStroke(SubSeq(shape.points, 3, Len(shape.points)),
                                         StrokeOptions(shape))}})
         ELSE [value |-> Path(<<>>, fill, shape.style.color,
                              shape.style.strokeWidth),
               caches |-> g.caches] :
         g \in {GetBounds(c, shape)},
         fill \in {IF shape.style.isFilled THEN shape.style.color ELSE "none"}})

\* -------------------------------------------------------------------------
\* Bounds of the model and the small sets its inputs are drawn from
\* -------------------------------------------------------------------------
\* the longest stroke drawn
MaxPoints == 3

\* a pressure-tagged point [x, y, p] with integer coordinates
Pt(x, y, p) == <<R(x), R(y), p>>

\* the neutral pressure 0.5
Half == Dec(1, 2)

\* the points a gesture may append, relative to where it began
AppendPoints == {Pt(2, 0, Half), Pt(-1, 1, Dec(3, 4)), Pt(0, 0, Half)}

\* the pointer moves of the gesture drawn while the caches are watched
Gesture ==
    <<Pt(2, 0, Half), Pt(-1, 1, Dec(3, 4)), Pt(0, 3, Half), Pt(1, -1, Half)>>

\* where a gesture may begin
StartPoints == {<<R(3), R(-2)>>}

\* points a gesture may append whose coordinates are decimal fractions, none
\* of them a binary64 number
DecimalPoints ==
    {<<Dec(-47, 10), Dec(3, 10), Half>>, <<Dec(11, 10), Dec(23, 10), Half>>,
     <<Dec(4, 10), Dec(9, 10), Half>>, <<Dec(-42, 10), Dec(-13, 10), Dec(3, 4)>>}

\* places with decimal coordinates where a gesture may begin
DecimalStarts == {<<Dec(-39, 10), Dec(7, 10)>>, <<Dec(2, 10), Dec(7, 10)>>}

\* a bounds record from its corners
Box(minX, minY, maxX, maxY) ==
    [minX |-> R(minX), minY |-> R(minY), maxX |-> R(maxX), maxY |-> R(maxY),
     width |-> R(maxX - minX), height |-> R(maxY - minY)]

\* the target bounds of a resize, all of positive width and height
Targets == {Box(1, 1, 4, 2), Box(-1, 0, 1, 4)}

\* the target bounds of a single-shape resize
SingleTargets == {Box(1, 1, 4, 2)}

\* the scale factors (scaleX, scaleY) of a resize that flips one axis: only
\* their sign is read
Flips == {<<R(1), R(-1)>>, <<R(-1), R(1)>>}

\* the scale factors of a resize that flips both axes or none
Both == {<<R(1), R(1)>>, <<R(-1), R(-1)>>}

\* the brush sizes the style may be set to
Sizes == {R(4), R(8)}

\* the rotations a shape may be given, in quarter turns
Rotations == {1, 2}

\* a bounds record from its corners given in quarters of a unit
QuarterBox(minX, minY, maxX, maxY) ==
    [minX |-> Dec(minX, 4), minY |-> Dec(minY, 4),
     maxX |-> Dec(maxX, 4), maxY |-> Dec(maxY, 4),
     width |-> Dec(maxX - minX, 4), height |-> Dec(maxY - minY, 4)]

\* the selection brushes dragged over a stroke that began at (3, -2): one
\* around it, two small ones inside its box, two across its box, one apart
Brushes ==
    {Box(0, -5, 8, 2), QuarterBox(9, -7, 11, -6), QuarterBox(14, -7, 18, -5),
     Box(4, -3, 6, 0), QuarterBox(4, -12, 10, -6), Box(10, 10, 11, 11)}

\* the brushes dragged while the caches are watched
FewBrushes == {Box(4, -3, 6, 0)}

\* -------------------------------------------------------------------------
\* State
\* -------------------------------------------------------------------------
VARIABLES
    shape,              \* the shape object the host currently holds
    phase,              \* "drafting", "finalizing" or "settled"
    initialShape,       \* <<snapshot>> during a resize session, else <<>>
    rendered,           \* <<drawable>> currently on screen
    pointsBoundsCache,  \* points identity -> local bounds
    rotatedCache,       \* shape identity -> rotated vertex list
    drawPathCache,      \* points identity -> path (never written)
    simplePathCache,    \* points identity -> indicator path
    strokeCache,        \* shape identity -> outline
    boundsCache,        \* shape identity -> local bounds (inherited cache)
    last                \* the last operation and what it returned

vars ==
    <<shape, phase, initialShape, rendered, pointsBoundsCache, rotatedCache,
      drawPathCache, simplePathCache, strokeCache, boundsCache, last>>

\* the caches of the Draw instance as one record
Caches ==
    [pointsBoundsCache |-> pointsBoundsCache, rotatedCache |-> rotatedCache,
     drawPathCache |-> drawPathCache, simplePathCache |-> simplePathCache,
     strokeCache |-> strokeCache, boundsCache |-> boundsCache]

NoEntries == [k \in {} |-> 0]

EmptyCaches ==
    [pointsBoundsCache |-> NoEntries, rotatedCache |-> NoEntries,
     drawPathCache |-> NoEntries, simplePathCache |-> NoEntries,
     strokeCache |-> NoEntries, boundsCache |-> NoEntries]

\* An object identity is <<kind, n>>.  Identities are compared and never
\* read, so each state names them canonically: the snapshot and what it
\* holds are 1, anything else is 2.
\* The renaming of the identities in held, given those of the snapshot
Names(held, snap) ==
    [r \in held \cup snap |->
        <<r[1], IF snap = {} \/ r \in snap THEN 1 ELSE 2>>]

\* a weak map keeps only the entries whose key is still referenced; the
\* entries of f under the renaming m of the referenced keys
Rekey(f, m) ==
    [k \in {m[r] : r \in (DOMAIN f) \cap (DOMAIN m)} |->
        f[CHOOSE r \in (DOMAIN f) \cap (DOMAIN m) : m[r] = k]]

\* a shape under the renamings of shape, points and style identities
Renamed(s, ms, mp, mt) ==
    [s EXCEPT !.ref = ms[@], !.pointsRef = mp[@], !.styleRef = mt[@]]

\* the shape s, the snapshot (<<>> or <<shape>>) and the caches c once only
\* s and the snapshot are referenced
Collect(s, snapshot, c) ==
    The({The({[shape |-> Renamed(s, ms, mp, mt),
               snapshot |-> Listed([i \in DOMAIN snapshot |->
                                      Renamed(snapshot[i], ms, mp, mt)]),
               caches |->
                  [pointsBoundsCache |-> Rekey(c.pointsBoundsCache, ms @@ mp @@ mt),
                   rotatedCache |-> Rekey(c.rotatedCache, ms @@ mp @@ mt),
                   drawPathCache |-> Rekey(c.drawPathCache, ms @@ mp @@ mt),
                   simplePathCache |-> Rekey(c.simplePathCache, ms @@ mp @@ mt),
                   strokeCache |-> Rekey(c.strokeCache, ms @@ mp @@ mt),
                   boundsCache |-> Rekey(c.boundsCache, ms @@ mp @@ mt)]] :
              ms \in {Names({s.ref}, {t.ref : t \in held})},
              mp \in {Names({s.pointsRef}, {t.pointsRef : t \in held})},
              mt \in {Names({s.styleRef}, {t.styleRef : t \in held})}}) :
         held \in {{snapshot[i] : i \in DOMAIN snapshot}}})

SetCaches(c) ==
    /\ pointsBoundsCache' = c.pointsBoundsCache
    /\ rotatedCache' = c.rotatedCache
    /\ drawPathCache' = c.drawPathCache
    /\ simplePathCache' = c.simplePathCache
    /\ strokeCache' = c.strokeCache
    /\ boundsCache' = c.boundsCache

\* the shapes the host references
Live == {shape} \cup {initialShape[i] : i \in DOMAIN initialShape}

\* an identity of the kind that no referenced object has
Fresh(kind, used) ==
    <<kind, CHOOSE n \in 1..(Cardinality(used) + 1) :
               /\ <<kind, n>> \notin used
               /\ \A t \in 1..(Cardinality(used) + 1) :
                     <<kind, t>> \notin used => n <= t>>

\* the host merges a partial shape into a new shape object; new point data
\* is a new points sequence and a new style a new style object
Merge(s, partial) ==
    [k \in DOMAIN s |->
        IF k \in DOMAIN partial THEN partial[k]
        ELSE IF k = "ref" THEN Fresh("shape", {t.ref : t \in Live})
        ELSE IF k = "pointsRef" /\ "points" \in DOMAIN partial
             THEN Fresh("points", {t.pointsRef : t \in Live})
        ELSE IF k = "styleRef" /\ "style" \in DOMAIN partial
             THEN Fresh("style", {t.styleRef : t \in Live})
        ELSE s[k]]

\* defaultProps, created where the gesture begins
DefaultProps(at) ==
    [ref |-> <<"shape", 1>>, id |-> "id", type |-> "draw", name |-> "Draw",
     parentId |-> "page", childIndex |-> 1, point |-> at,
     points |-> <<Pt(0, 0, Half)>>, pointsRef |-> <<"points", 1>>, rotation |-> 0,
     isDone |-> FALSE, style |-> DefaultStyle, styleRef |-> <<"style", 1>>]



\* -------------------------------------------------------------------------
\* The host: every edit rebinds the shape and repaints it
\* -------------------------------------------------------------------------
InitAt(starts) ==
    \E at \in starts :
    \E r \in {Render(EmptyCaches, DefaultProps(at))} :
        /\ shape = DefaultProps(at)
        /\ phase = "drafting"
        /\ initialShape = <<>>
        /\ rendered = <<r.value>>
        /\ pointsBoundsCache = r.caches.pointsBoundsCache
        /\ rotatedCache = r.caches.rotatedCache
        /\ drawPathCache = r.caches.drawPathCache
        /\ simplePathCache = r.caches.simplePathCache
        /\ strokeCache = r.caches.strokeCache
        /\ boundsCache = r.caches.boundsCache
        /\ last = [op |-> "create"]

\* a gesture begins at a place of whole coordinates
Init == InitAt(StartPoints)

\* a gesture begins at a place of decimal coordinates
InitDecimal == InitAt(DecimalStarts)

\* the host binds the shape to next, left by a call that left the caches c,
\* and repaints it unless shouldRender says nothing changed
Commit(to, left, snapshot, rec) ==
    \E next \in {to}, c \in {left} :
    \E sr \in {ShouldRender(shape, next)} :
    \E rr \in {IF sr THEN Render(c, next)
               ELSE [value |-> rendered[1], caches |-> c]} :
    \E gc \in {Collect(next, snapshot, rr.caches)} :
        /\ shape' = gc.shape
        /\ initialShape' = gc.snapshot
        /\ rendered' = <<rr.value>>
        /\ SetCaches(gc.caches)
        /\ last' = [shouldRender |-> sr,
                    samePoints |-> next.pointsRef = shape.pointsRef,
                    sameStyle |-> next.styleRef = shape.styleRef,
                    sameValues |-> next.points = shape.points
                                    /\ next.style = shape.style,
                    sameRest |-> next.isDone = shape.isDone
                                  /\ next.point = shape.point] @@ rec

\* a pointer move of the gesture appends a point
AppendPoint(pt) ==
    /\ phase = "drafting"
    /\ Len(shape.points) < MaxPoints
    /\ Commit(Merge(shape, [points |-> Append(shape.points, pt)]), Caches,
              initialShape, [op |-> "append"])
    /\ UNCHANGED phase

\* the next pointer move of the gesture drawn while the caches are watched
FollowGesture ==
    \E i \in 1..Len(Gesture) :
        i = Len(shape.points) /\ AppendPoint(Gesture[i])

\* the gesture ends: the stroke is marked done
Finish ==
    /\ phase = "drafting"
    /\ Commit(Merge(shape, [isDone |-> TRUE]), Caches, initialShape,
              [op |-> "finish"])
    /\ phase' = "finalizing"

\* the session-completion step
Complete ==
    /\ phase = "finalizing"
    /\ \E r \in {OnSessionComplete(Caches, shape)} :
          Commit(Merge(shape, r.value), r.caches, initialShape,
                 [op |-> "onSessionComplete", result |-> r.value,
                  arg |-> shape,
                  bounds |-> GetBounds(Caches, shape).value])
    /\ phase' = "settled"

\* the style panel sets a brush size: a new style object
SetStyle(size) ==
    /\ initialShape = <<>>
    /\ Commit(Merge(shape, [style |-> [shape.style EXCEPT !.size = size]]),
              Caches, initialShape, [op |-> "style"])
    /\ UNCHANGED phase

\* the shape is rotated
Rotate(q) ==
    /\ phase = "settled"
    /\ initialShape = <<>>
    /\ q # shape.rotation
    /\ Commit(Merge(shape, [rotation |-> q]), Caches, initialShape,
              [op |-> "rotate"])
    /\ UNCHANGED phase

\* a resize gesture begins: the shape is snapshot
StartTransform ==
    /\ phase = "settled"
    /\ initialShape = <<>>
    /\ initialShape' = <<shape>>
    /\ last' = [op |-> "resize"]
    /\ UNCHANGED <<shape, phase, rendered, pointsBoundsCache, rotatedCache,
                   drawPathCache, simplePathCache, strokeCache, boundsCache>>

\* a pointer move of a multi-shape resize
TransformStep(bounds, sx, sy) ==
    /\ initialShape # <<>>
    /\ \E r \in {Transform(Caches, shape, bounds,
                 [initialShape |-> initialShape[1], scaleX |-> sx,
                  scaleY |-> sy])} :
          Commit(Merge(shape, r.value), r.caches, initialShape,
                 [op |-> "transform", result |-> r.value, bounds |-> bounds,
                  scaleX |-> sx, scaleY |-> sy,
                  hit |-> initialShape[1].ref \in DOMAIN boundsCache,
                  computed |-> r.computed])
    /\ UNCHANGED phase

\* a pointer move of a single-shape resize
TransformSingleStep(bounds, sx, sy) ==
    /\ initialShape # <<>>
    /\ \E r \in {TransformSingle(Caches, shape, bounds,
                 [initialShape |-> initialShape[1], scaleX |-> sx,
                  scaleY |-> sy])} :
          Commit(Merge(shape, r.value), r.caches, initialShape,
                 [op |-> "transform", result |-> r.value, bounds |-> bounds,
                  scaleX |-> sx, scaleY |-> sy,
                  hit |-> initialShape[1].ref \in DOMAIN boundsCache,
                  computed |-> r.computed])
    /\ UNCHANGED phase

\* the resize gesture ends
EndTransform ==
    /\ initialShape # <<>>
    /\ \E gc \in {Collect(shape, <<>>, Caches)} :
          /\ shape' = gc.shape
          /\ initialShape' = gc.snapshot
          /\ SetCaches(gc.caches)
    /\ last' = [op |-> "resize"]
    /\ UNCHANGED <<phase, rendered>>

\* a call of an accessor that edits nothing: the caches it leaves and what
\* it returned are recorded
Call(r, rec) ==
    \E ret \in {r} :
        /\ SetCaches(ret.caches)
        /\ last' = [value |-> ret.value, computed |-> ret.computed] @@ rec
        /\ UNCHANGED <<shape, phase, initialShape, rendered>>

\* the host asks for the bounds of the shape
CallGetBounds ==
    Call(GetBounds(Caches, shape),
         [op |-> "getBounds", hit |-> shape.pointsRef \in DOMAIN pointsBoundsCache])

\* the host asks for the centre of the shape
CallGetCenter ==
    Call(GetCenter(Caches, shape),
         [op |-> "getCenter", hit |-> shape.pointsRef \in DOMAIN pointsBoundsCache])

\* a selection brush is dragged over the shape
CallHitTestBounds(brush) ==
    Call(HitTestBounds(Caches, shape, brush),
         [op |-> "hitTestBounds", brush |-> brush,
          hit |-> IF shape.rotation = 0
                  THEN shape.pointsRef \in DOMAIN pointsBoundsCache
                  ELSE shape.ref \in DOMAIN rotatedCache])

\* the host asks whether a point hits the shape
CallHitTest ==
    Call([value |-> HitTest, caches |-> Caches, computed |-> FALSE],
         [op |-> "hitTest"])

\* the selection indicator of the shape is drawn
CallRenderIndicator ==
    Call(RenderIndicator(Caches, shape),
         [op |-> "renderIndicator",
          hit |-> shape.pointsRef \in DOMAIN simplePathCache])

\* the lifecycle of a stroke: draw, finish, settle, resize
Next ==
    \/ \E pt \in AppendPoints : AppendPoint(pt)
    \/ Finish
    \/ Complete
    \/ StartTransform
    \/ \E b \in Targets, f \in Flips : TransformStep(b, f[1], f[2])
    \/ \E b \in SingleTargets, f \in Both : TransformSingleStep(b, f[1], f[2])
    \/ EndTransform

Spec == Init /\ [][Next]_vars

\* drawing and painting: the gesture, and the style panel at any moment
NextPaint ==
    \/ \E pt \in AppendPoints : AppendPoint(pt)
    \/ Finish
    \/ Complete
    \/ \E size \in Sizes : SetStyle(size)

SpecPaint == Init /\ [][NextPaint]_vars

\* selecting: the gesture, and a brush dragged over the stroke at any moment
NextHit ==
    \/ \E pt \in AppendPoints : AppendPoint(pt)
    \/ Finish
    \/ Complete
    \/ CallHitTest
    \/ \E brush \in Brushes : CallHitTestBounds(brush)

SpecHit == Init /\ [][NextHit]_vars

\* every edit and every cached accessor
NextCache ==
    \/ FollowGesture
    \/ Finish
    \/ Complete
    \/ \E q \in Rotations : Rotate(q)
    \/ StartTransform
    \/ \E b \in SingleTargets : TransformStep(b, R(-1), R(1))
    \/ EndTransform
    \/ CallGetBounds
    \/ CallGetCenter
    \/ \E brush \in FewBrushes : CallHitTestBounds(brush)
    \/ CallRenderIndicator

SpecCache == Init /\ [][NextCache]_vars

\* a gesture through points of decimal coordinates, then its completion
NextSettle ==
    \/ \E pt \in DecimalPoints : AppendPoint(pt)
    \/ Finish
    \/ Complete

SpecSettle == InitDecimal /\ [][NextSettle]_vars

\* -------------------------------------------------------------------------
\* Properties
\* -------------------------------------------------------------------------
\* two numbers are the same number (NaN is equal to nothing)
Same(a, b) == Eq(a, b)

\* two boxes have the same corners
SameBox(a, b) ==
    /\ Same(a.minX, b.minX) /\ Same(a.minY, b.minY)
    /\ Same(a.maxX, b.maxX) /\ Same(a.maxY, b.maxY)

\* the bounding box of a returned {points, point}, in parent space
PlacedBox(result) ==
    TranslateBounds(GetBoundsFromPoints(result.points), result.point)

\* every coordinate of a returned {points, point} is a finite number
AllFinite(result) ==
    /\ IsFinite(result.point[1]) /\ IsFinite(result.point[2])
    /\ \A i \in 1..Len(result.points) :
          IsFinite(result.points[i][1]) /\ IsFinite(result.points[i][2])

\* C1 as stated: after every transform, for any snapshot with at least one
\* point, the bounding box of the returned points translated by the returned
\* point is the target bounds.
C1_TransformFillsTarget ==
    last.op = "transform" => SameBox(PlacedBox(last.result), last.bounds)

\* C4: once isDone is true it stays true, and what onSessionComplete,
\* transform and transformSingle return holds points and point only.
C4_DoneStaysDone ==
    [][/\ shape.isDone => shape'.isDone
       /\ "result" \in DOMAIN last' => DOMAIN last'.result = {"points", "point"}]_vars

\* C4 witness: a finished stroke that was completed and then resized
C4_Witness == shape.isDone /\ last.op = "transform"

\* two points have the same coordinates
SameVec(a, b) == Same(a[1], b[1]) /\ Same(a[2], b[2])

\* C5 as stated: calling onSessionComplete on the shape that holds the
\* result of onSessionComplete returns the same point and the same points,
\* coordinates and pressures.
C5_CompleteIsIdempotent ==
    last.op = "onSessionComplete" =>
        LET again == OnSessionComplete(Caches, shape).value
        IN  /\ SameVec(again.point, shape.point)
            /\ Len(again.points) = Len(shape.points)
            /\ \A i \in 1..Len(shape.points) :
                  /\ SameVec(again.points[i], shape.points[i])
                  /\ Same(again.points[i][3], shape.points[i][3])

\* C8 as stated: onSessionComplete re-origins the stroke without moving it:
\* the local bounds of the returned points have minX = 0 and minY = 0, the
\* returned point is the old point shifted by the old local top-left corner,
\* the returned points placed at the returned point have the bounds
\* getBounds gave for the original shape, and the number, order and pressure
\* of the points are unchanged.
C8_CompleteReorigins ==
    last.op = "onSessionComplete" =>
        LET old == GetBoundsFromPoints(last.arg.points)
            new == GetBoundsFromPoints(last.result.points)
        IN  /\ Same(new.minX, R(0)) /\ Same(new.minY, R(0))
            /\ SameVec(last.result.point,
                       VecAdd(last.arg.point, <<old.minX, old.minY>>))
            /\ SameBox(TranslateBounds(new, last.result.point), last.bounds)
            /\ Len(last.result.points) = Len(last.arg.points)
            /\ \A i \in 1..Len(last.arg.points) :
                  Same(last.result.points[i][3], last.arg.points[i][3])

\* C10 as stated: every coordinate transform returns is a finite number,
\* also for a snapshot whose local bounds have no width or no height.
C10_TransformIsFinite ==
    last.op = "transform" => AllFinite(last.result)

\* the stroke is very short for its brush: fewer than 3 points, or a box
\* narrower and lower than half the brush size
VeryShort(s) ==
    \/ Len(s.points) < 3
    \/ \A k \in 1..2 :
          Lt(Sub(MaxOf(Coords(s.points, k)), MinOf(Coords(s.points, k))),
             Div(s.style.size, R(2)))

\* C6: render returns the circle exactly when the stroke is done and very
\* short, and a path otherwise; so a done stroke of fewer than 3 points is a
\* circle and no stroke that is not done is one.
C6_DotExactlyWhenDoneAndShort ==
    \E d \in {Render(Caches, shape).value} :
        /\ d.tag \in {"circle", "path"}
        /\ d.tag = "circle" <=> (shape.isDone /\ VeryShort(shape))
        /\ (shape.isDone /\ Len(shape.points) < 3) => d.tag = "circle"
        /\ ~shape.isDone => d.tag = "path"

\* C6 witness: a done stroke of three points, small for its brush, was
\* painted as a circle
C6_Witness ==
    /\ shape.isDone
    /\ Len(shape.points) = 3
    /\ "shouldRender" \in DOMAIN last /\ last.shouldRender
    /\ rendered[1].tag = "circle"
    /\ \E i \in 1..3 : shape.points[i] # shape.points[1]

\* C7: shouldRender is false exactly when next has the points object and
\* the style object of prev, whatever their contents and the other fields.
C7_ShouldRenderComparesReferences ==
    "shouldRender" \in DOMAIN last =>
        (last.shouldRender <=> ~(last.samePoints /\ last.sameStyle))

\* C7 witness: an edit that left equal contents in a new object was
\* repainted
C7_Witness ==
    /\ "shouldRender" \in DOMAIN last
    /\ last.sameValues
    /\ ~(last.samePoints /\ last.sameStyle)
    /\ last.shouldRender

\* C9 as stated: whenever shouldRender lets the host skip the paint, the
\* drawable left on screen, which is render(prev), is what render(next)
\* returns.
C9_SkippedPaintIsCurrent ==
    ("shouldRender" \in DOMAIN last /\ ~last.shouldRender)
        => rendered[1] = Render(Caches, shape).value

\* some segment of the stroke, placed in parent space, meets an edge of the
\* box
Crosses(s, box) ==
    \E i \in 1..(Len(s.points) - 1) : \E e \in BoxEdges(box) :
        SegmentSegment(VecAdd(s.points[i], s.point),
                       VecAdd(s.points[i + 1], s.point), e[1], e[2])

\* C2 as stated: hitTestBounds of an unrotated shape is true exactly when
\* the box contains the shape's bounds, or the bounds contain the box, or
\* the two overlap without containment and a segment crosses the box.
C2_HitWithoutCrossingWhenInside ==
    (last.op = "hitTestBounds" /\ shape.rotation = 0) =>
        LET bounds == PlacedBox(shape)
            around == BoundsContain(last.brush, bounds)
            inside == BoundsContain(bounds, last.brush)
        IN  last.value <=>
                \/ around
                \/ inside
                \/ /\ ~around /\ ~inside
                   /\ IntersectBoundsBounds(bounds, last.brush)
                   /\ Crosses(shape, last.brush)

\* C3: every cache entry of a referenced key is what a fresh computation
\* from the shape would store, every cached accessor returns what it returns
\* with empty caches, and a call finds the stored value exactly when it does
\* not compute.
C3_CachesAreCoherent ==
    /\ \A t \in Live :
          /\ t.pointsRef \in DOMAIN pointsBoundsCache =>
                pointsBoundsCache[t.pointsRef] = GetBoundsFromPoints(t.points)
          /\ t.ref \in DOMAIN rotatedCache =>
                rotatedCache[t.ref] = RotatedPoints(t)
          /\ t.pointsRef \in DOMAIN simplePathCache =>
                simplePathCache[t.pointsRef] = GetSolidStrokePath(t)
          /\ t.ref \in DOMAIN boundsCache =>
                boundsCache[t.ref] = GetBoundsFromPoints(t.points)
    /\ last.op = "getBounds" =>
          last.value = GetBounds(EmptyCaches, shape).value
    /\ last.op = "getCenter" =>
          last.value = GetCenter(EmptyCaches, shape).value
    /\ last.op = "hitTestBounds" =>
          last.value = HitTestBounds(EmptyCaches, shape, last.brush).value
    /\ last.op = "renderIndicator" =>
          last.value = RenderIndicator(EmptyCaches, shape).value
    /\ "hit" \in DOMAIN last => (last.hit <=> ~last.computed)

\* C3 witness: the hit test of a rotated shape found its vertex list stored
C3_Witness ==
    /\ last.op = "hitTestBounds"
    /\ shape.rotation # 0
    /\ last.hit
    /\ ~last.computed
    /\ Len(shape.points) = 3
====
